---- MODULE Spec2Model ----
(***************************************************************************)
(* A model of the simd-json value layer:                                   *)
(*   - the ValueTrait default methods of src/value.rs (structural access   *)
(*     and mutation, and the checked-narrowing integer accessors);         *)
(*   - the serde Serializer producing an owned Value, of                   *)
(*     src/serde/value/owned/se.rs (primitive encoding, the restricted     *)
(*     map-key serializer, the sequence / map / variant builders);         *)
(*   - the decode engine and the cursor it consumes, of which the          *)
(*     repository's sources here hold no code: they follow the written     *)
(*     design (one recursive descent, generic over the Owned and the       *)
(*     Borrowed representation).                                           *)
(*                                                                         *)
(* The state machines share the module, one specification each:            *)
(*   SpecNum   the integer accessors and the integer serialize_* methods,  *)
(*             applied to inputs drawn at the limits of every width;       *)
(*   SpecValue one Value and the calls insert / remove / push / pop /      *)
(*             get / get_mut / get_idx / get_idx_mut made on it;           *)
(*   SpecEnc   to_value applied to one self-describing input;              *)
(*   SpecSer   the SerializeMap builder driven step by step;               *)
(*   SpecVec   the SerializeVec builder driven step by step;               *)
(*   SpecId    to_value applied to an Owned value;                         *)
(*   SpecDec   one token stream decoded as Owned and as Borrowed;          *)
(*   SpecObj   an Object built from entries whose keys may repeat, by      *)
(*             either engine.                                              *)
(***************************************************************************)
EXTENDS Integers, Sequences, FiniteSets, TLC

VARIABLES
    \* --- SpecNum ---
    self_i64,    \* what self.as_i64() returns for the value at hand
    self_u64,    \* what self.as_u64() returns for the value at hand
    usize_bits,  \* the pointer width of the build target
    \* --- SpecValue ---
    this,        \* the Value the calls are made on (`self`)
    prev,        \* history: `self` as it was before the last call
    log,         \* history: the mutator calls that returned Ok, oldest first
                 \* (SpecVec: the elements whose step returned Ok)
    \* --- SpecEnc ---
    input,       \* the self-describing value handed to to_value
                 \* (SpecDec: the token stream; SpecVec: the opening call)
    \* --- SpecSer ---
    builder,     \* the SerializeMap being driven: [map, next_key]
                 \* (SpecVec: the SerializeVec, [vec])
    before,      \* history: the builder as it was before the last step
    phase,       \* "open", "ended" (end consumed it) or "panicked"
    nsteps,      \* history: the number of steps taken
    \* --- every machine ---
    call         \* the last call made: [name, arg, ret]

numVars == <<self_i64, self_u64, usize_bits>>
domVars == <<this, prev, log>>
encVars == <<input>>
serVars == <<builder, before, phase, nsteps>>
vars == <<self_i64, self_u64, usize_bits, this, prev, log, input,
          builder, before, phase, nsteps, call>>

(***************************************************************************)
(* Option<T>: None is the empty tuple, Some(x) the one-element tuple.      *)
(***************************************************************************)
None == <<>>
Some(x) == <<x>>
IsSome(o) == Len(o) = 1
Unwrap(o) == o[1]

(***************************************************************************)
(* Integers.  The 64-bit limits do not fit the checker's machine integers, *)
(* so every integer of the program is held as a two's complement word of   *)
(* NLimbs limbs of 16 bits, least significant limb first.  144 bits hold   *)
(* every value of every Rust integer type up to i128 / u128 exactly, so a  *)
(* word stands for the mathematical integer and equality of words is       *)
(* numeric equality.                                                       *)
(***************************************************************************)
LimbBits == 16
Base == 2^LimbBits
NLimbs == 9
Limbs == 1..NLimbs

Zero == [i \in Limbs |-> 0]
One == [i \in Limbs |-> IF i = 1 THEN 1 ELSE 0]

\* a small integer, 0 <= n < Base, as a word
Word(n) == [i \in Limbs |-> IF i = 1 THEN n ELSE 0]

\* 2^k as a word, 0 <= k < LimbBits * NLimbs
Pow2(k) == [i \in Limbs |-> IF i = (k \div LimbBits) + 1 THEN 2^(k % LimbBits) ELSE 0]

RECURSIVE Carry(_, _, _)
\* the carry into limb i of a + b
Carry(a, b, i) ==
    IF i = 1 THEN 0 ELSE (a[i-1] + b[i-1] + Carry(a, b, i-1)) \div Base

Add(a, b) == [i \in Limbs |-> (a[i] + b[i] + Carry(a, b, i)) % Base]
Not(a) == [i \in Limbs |-> Base - 1 - a[i]]
Neg(a) == Add(Not(a), One)
Sub(a, b) == Add(a, Neg(b))
IsNeg(a) == a[NLimbs] >= Base \div 2
Less(a, b) == IsNeg(Sub(a, b))
Leq(a, b) == ~Less(b, a)

\* the low w bits of a, zero-extended
Low(a, w) ==
    [i \in Limbs |->
        IF LimbBits * i <= w THEN a[i]
        ELSE IF LimbBits * (i - 1) < w THEN a[i] % 2^(w - LimbBits * (i - 1))
        ELSE 0]

\* bit k of a
Bit(a, k) == (a[(k \div LimbBits) + 1] \div 2^(k % LimbBits)) % 2

(***************************************************************************)
(* Integer types: [signed, bits].  MIN and MAX of a type, the `as` cast    *)
(* (truncate to the width, then read the bits in the target's signedness), *)
(* the exact widening From, and the checked TryFrom of core::convert.      *)
(***************************************************************************)
I8 == [signed |-> TRUE, bits |-> 8]
I16 == [signed |-> TRUE, bits |-> 16]
I32 == [signed |-> TRUE, bits |-> 32]
I64 == [signed |-> TRUE, bits |-> 64]
I128 == [signed |-> TRUE, bits |-> 128]
U8 == [signed |-> FALSE, bits |-> 8]
U16 == [signed |-> FALSE, bits |-> 16]
U32 == [signed |-> FALSE, bits |-> 32]
U64 == [signed |-> FALSE, bits |-> 64]
U128 == [signed |-> FALSE, bits |-> 128]
Usize == [signed |-> FALSE, bits |-> usize_bits]

MinOf(T) == IF T.signed THEN Neg(Pow2(T.bits - 1)) ELSE Zero
MaxOf(T) == IF T.signed THEN Sub(Pow2(T.bits - 1), One) ELSE Sub(Pow2(T.bits), One)

\* `x as T`
CastAs(x, T) ==
    IF T.signed /\ Bit(x, T.bits - 1) = 1
    THEN Sub(Low(x, T.bits), Pow2(T.bits))
    ELSE Low(x, T.bits)

\* the wrapping conversion a missing range check would leave
TryIntoWrapping(u, T) == Some(CastAs(u, T))

\* `u.try_into().ok()` into T: None outside MIN..MAX, else Some(u as T)
TryInto(u, T) ==
    IF Less(u, MinOf(T)) \/ Less(MaxOf(T), u) THEN None ELSE Some(CastAs(u, T))

\* Option::and_then(|u| u.try_into().ok())
AndThenTryInto(o, T) == IF IsSome(o) THEN TryInto(Unwrap(o), T) ELSE None

(***************************************************************************)
(* ValueTrait: the integer accessors derived from as_i64 and as_u64.       *)
(* as_i64 and as_u64 are required methods of the trait: the derived        *)
(* accessors are written against whatever they return (self_i64, self_u64).*)
(***************************************************************************)
as_i128 == AndThenTryInto(self_i64, I128)
as_i32 == AndThenTryInto(self_i64, I32)
as_i16 == AndThenTryInto(self_i64, I16)
as_i8 == AndThenTryInto(self_i64, I8)
as_u128 == AndThenTryInto(self_u64, U128)
as_usize == AndThenTryInto(self_u64, Usize)
as_u32 == AndThenTryInto(self_u64, U32)
as_u16 == AndThenTryInto(self_u64, U16)
as_u8 == AndThenTryInto(self_u64, U8)

(***************************************************************************)
(* Value: the owned DOM value, a tagged union.  Every variant carries all  *)
(* the payload fields, the unused ones at their defaults, so that any two  *)
(* values can be compared.  An Array is the sequence of its elements; an   *)
(* Object is the sequence of its <<key, value>> entries.                   *)
(***************************************************************************)
Blank == [t |-> "Null", b |-> FALSE, i |-> Zero, f |-> "", s |-> "", a |-> <<>>, o |-> <<>>]
Null == Blank
Bool(b) == [Blank EXCEPT !.t = "Bool", !.b = b]
I64V(n) == [Blank EXCEPT !.t = "I64", !.i = n]
F64V(x) == [Blank EXCEPT !.t = "F64", !.f = x]
String(s) == [Blank EXCEPT !.t = "String", !.s = s]
Array(vec) == [Blank EXCEPT !.t = "Array", !.a = vec]
Object(map) == [Blank EXCEPT !.t = "Object", !.o = map]

\* Result<T>: Ok(x) or Err(e)
Ok(x) == [ok |-> TRUE, val |-> x, err |-> ""]
Err(e) == [ok |-> FALSE, val |-> Null, err |-> e]

(***************************************************************************)
(* Serializer: the integer methods.                                        *)
(***************************************************************************)
serialize_i64(value) == Ok(I64V(value))
\* i64::from(value) is exact
serialize_i8(value) == serialize_i64(value)
serialize_i16(value) == serialize_i64(value)
serialize_i32(value) == serialize_i64(value)

\* a serialize_u64 that keeps the number instead of the bits
serialize_u64_unwrapped(value) == Ok(I64V(value))

serialize_u64(value) == Ok(I64V(CastAs(value, I64)))
\* u64::from(value) is exact
serialize_u8(value) == serialize_u64(value)
serialize_u16(value) == serialize_u64(value)
serialize_u32(value) == serialize_u64(value)

(***************************************************************************)
(* The containers behind a Value.  Object is halfbrown's HashMap and Array *)
(* is Vec; ValueTrait documents insert / remove / push / pop as behaving   *)
(* the same as HashMap::insert, HashMap::remove, Vec::push and Vec::pop.   *)
(* The map is held as its sequence of entries, so that a key stored twice  *)
(* is a state the model can express.                                       *)
(***************************************************************************)
HasKey(m, k) == \E j \in 1..Len(m) : m[j][1] = k
IndexOfKey(m, k) == CHOOSE j \in 1..Len(m) : m[j][1] = k
RemoveAt(m, j) == SubSeq(m, 1, j - 1) \o SubSeq(m, j + 1, Len(m))

\* an insertion that appends without looking for the key
HashMapInsert_append(m, k, v) == [map |-> Append(m, <<k, v>>), old |-> None]

\* HashMap::insert: the old value if the key was present, and the new one stored
HashMapInsert(m, k, v) ==
    IF HasKey(m, k)
    THEN [map |-> [m EXCEPT ![IndexOfKey(m, k)] = <<k, v>>],
          old |-> Some(m[IndexOfKey(m, k)][2])]
    ELSE [map |-> Append(m, <<k, v>>), old |-> None]

\* HashMap::remove: the value removed, if the key was present
HashMapRemove(m, k) ==
    IF HasKey(m, k)
    THEN [map |-> RemoveAt(m, IndexOfKey(m, k)), old |-> Some(m[IndexOfKey(m, k)][2])]
    ELSE [map |-> m, old |-> None]

\* HashMap::get and HashMap::get_mut: the value stored under the key
HashMapGet(m, k) == IF HasKey(m, k) THEN Some(m[IndexOfKey(m, k)][2]) ELSE None

\* Vec::push
VecPush(vec, v) == Append(vec, v)
\* Vec::pop: the last element, None when empty
VecPop(vec) ==
    IF Len(vec) = 0
    THEN [vec |-> vec, last |-> None]
    ELSE [vec |-> SubSeq(vec, 1, Len(vec) - 1), last |-> Some(vec[Len(vec)])]
\* slice::get and slice::get_mut, i counted from 0
VecGet(vec, i) == IF i < Len(vec) THEN Some(vec[i + 1]) ELSE None

(***************************************************************************)
(* ValueTrait: structural access.  as_object(_mut) and as_array(_mut) are  *)
(* required methods: Some(the container) on the matching variant.          *)
(* A method taking &mut self yields [self, ret]: the value after the call,*)
(* and what the call returns.                                              *)
(***************************************************************************)
as_object(v) == IF v.t = "Object" THEN Some(v.o) ELSE None
as_array(v) == IF v.t = "Array" THEN Some(v.a) ELSE None

\* Result<Option<Value>, AccessError> and Result<(), AccessError>
OkAccess(x) == [ok |-> TRUE, val |-> x, err |-> ""]
ErrAccess(e) == [ok |-> FALSE, val |-> None, err |-> e]
Unit == <<>>

get(v, k) ==
    IF IsSome(as_object(v)) THEN HashMapGet(Unwrap(as_object(v)), k) ELSE None

\* an insert that turns whatever it is called on into an Object
insert_coercing(v, k, x) ==
    [self |-> Object(HashMapInsert(v.o, k, x).map),
     ret |-> OkAccess(HashMapInsert(v.o, k, x).old)]

\* an insert that keeps the value already stored under the key, as
\* entry(k).or_insert(x) would
insert_keep_first(v, k, x) ==
    IF IsSome(as_object(v))
    THEN IF HasKey(v.o, k)
         THEN [self |-> v, ret |-> OkAccess(HashMapGet(v.o, k))]
         ELSE [self |-> [v EXCEPT !.o = Append(v.o, <<k, x>>)], ret |-> OkAccess(None)]
    ELSE [self |-> v, ret |-> ErrAccess("NotAnObject")]

insert(v, k, x) ==
    IF IsSome(as_object(v))
    THEN LET r == HashMapInsert(Unwrap(as_object(v)), k, x)
         IN  [self |-> [v EXCEPT !.o = r.map], ret |-> OkAccess(r.old)]
    ELSE [self |-> v, ret |-> ErrAccess("NotAnObject")]

remove(v, k) ==
    IF IsSome(as_object(v))
    THEN LET r == HashMapRemove(Unwrap(as_object(v)), k)
         IN  [self |-> [v EXCEPT !.o = r.map], ret |-> OkAccess(r.old)]
    ELSE [self |-> v, ret |-> ErrAccess("NotAnObject")]

push(v, x) ==
    IF IsSome(as_array(v))
    THEN [self |-> [v EXCEPT !.a = VecPush(Unwrap(as_array(v)), x)], ret |-> OkAccess(Unit)]
    ELSE [self |-> v, ret |-> ErrAccess("NotAnArray")]

\* a pop that takes the oldest element
pop_front(v) ==
    IF IsSome(as_array(v))
    THEN IF Len(v.a) = 0
         THEN [self |-> v, ret |-> OkAccess(None)]
         ELSE [self |-> [v EXCEPT !.a = Tail(v.a)], ret |-> OkAccess(Some(Head(v.a)))]
    ELSE [self |-> v, ret |-> ErrAccess("NotAnArray")]

pop(v) ==
    IF IsSome(as_array(v))
    THEN LET r == VecPop(Unwrap(as_array(v)))
         IN  [self |-> [v EXCEPT !.a = r.vec], ret |-> OkAccess(r.last)]
    ELSE [self |-> v, ret |-> ErrAccess("NotAnArray")]

\* a get_mut that stores a Null under a missing key, as an entry API would
get_mut_or_insert(v, k) ==
    IF IsSome(as_object(v))
    THEN IF HasKey(v.o, k)
         THEN [self |-> v, ret |-> HashMapGet(v.o, k)]
         ELSE [self |-> [v EXCEPT !.o = Append(v.o, <<k, Null>>)], ret |-> Some(Null)]
    ELSE [self |-> v, ret |-> None]

get_mut(v, k) ==
    IF IsSome(as_object(v))
    THEN [self |-> v, ret |-> HashMapGet(Unwrap(as_object(v)), k)]
    ELSE [self |-> v, ret |-> None]

get_idx(v, i) ==
    IF IsSome(as_array(v)) THEN VecGet(Unwrap(as_array(v)), i) ELSE None

get_idx_mut(v, i) ==
    IF IsSome(as_array(v))
    THEN [self |-> v, ret |-> VecGet(Unwrap(as_array(v)), i)]
    ELSE [self |-> v, ret |-> None]

(***************************************************************************)
(* The encode engine's input: a value that describes itself through the    *)
(* serde data model.  A shape is the Serializer method its Serialize impl  *)
(* calls, with the arguments it passes; "fail" is an impl that returns a   *)
(* custom error.  As for Value, every shape carries every field.           *)
(***************************************************************************)
BlankShape ==
    [kind |-> "unit", b |-> FALSE, n |-> Zero, s |-> "", by |-> <<>>,
     xs |-> <<>>, kv |-> <<>>, fs |-> <<>>, hint |-> None]
InUnit == BlankShape
InUnitStruct == [BlankShape EXCEPT !.kind = "unit_struct"]
InNone == [BlankShape EXCEPT !.kind = "none"]
InFail == [BlankShape EXCEPT !.kind = "fail"]
InBool(b) == [BlankShape EXCEPT !.kind = "bool", !.b = b]
\* kind: i8, i16, i32, i64, u8, u16, u32, u64
InInt(kind, n) == [BlankShape EXCEPT !.kind = kind, !.n = n]
InF32(x) == [BlankShape EXCEPT !.kind = "f32", !.s = x]
InF64(x) == [BlankShape EXCEPT !.kind = "f64", !.s = x]
InChar(c) == [BlankShape EXCEPT !.kind = "char", !.s = c]
InStr(s) == [BlankShape EXCEPT !.kind = "str", !.s = s]
InBytes(by) == [BlankShape EXCEPT !.kind = "bytes", !.by = by]
InSome(x) == [BlankShape EXCEPT !.kind = "some", !.xs = <<x>>]
InNewtypeStruct(x) == [BlankShape EXCEPT !.kind = "newtype_struct", !.xs = <<x>>]
InUnitVariant(variant) == [BlankShape EXCEPT !.kind = "unit_variant", !.s = variant]
InNewtypeVariant(variant, x) ==
    [BlankShape EXCEPT !.kind = "newtype_variant", !.s = variant, !.xs = <<x>>]
\* hint: the Option<usize> given to serialize_seq
InSeq(hint, xs) == [BlankShape EXCEPT !.kind = "seq", !.hint = hint, !.xs = xs]
InTuple(xs) == [BlankShape EXCEPT !.kind = "tuple", !.xs = xs]
InTupleStruct(xs) == [BlankShape EXCEPT !.kind = "tuple_struct", !.xs = xs]
InTupleVariant(variant, xs) ==
    [BlankShape EXCEPT !.kind = "tuple_variant", !.s = variant, !.xs = xs]
\* kv: the entries <<key shape, value shape>>
InMap(kv) == [BlankShape EXCEPT !.kind = "map", !.kv = kv]
\* fs: the fields <<name, value shape>>
InStruct(fs) == [BlankShape EXCEPT !.kind = "struct", !.fs = fs]
InStructVariant(variant, fs) ==
    [BlankShape EXCEPT !.kind = "struct_variant", !.s = variant, !.fs = fs]

IntKinds == {"i8", "i16", "i32", "i64", "u8", "u16", "u32", "u64"}

\* Result<()>
OkUnit == Ok(Null)
\* Result<String> of the key serializer
KeyOk(s) == [ok |-> TRUE, val |-> s, err |-> ""]
KeyErr(e) == [ok |-> FALSE, val |-> "", err |-> e]
\* Object::new()
ObjectNew == <<>>

(***************************************************************************)
(* MapKeySerializer: the serializer a map key is handed to.                *)
(***************************************************************************)
key_must_be_a_string == KeyErr("KeyMustBeAString")

\* a key taken from the enum's name instead of the alternative's
MapKey_serialize_unit_variant_name(variant) == KeyOk("Enum")

MapKey_serialize_unit_variant(variant) == KeyOk(variant)
MapKey_serialize_str(value) == KeyOk(value)
MapKey_serialize_bool(value) == key_must_be_a_string

\* the stringification the source keeps commented out
MapKey_serialize_int_to_string(value) == KeyOk("5")

\* serialize_i8 .. serialize_u64
MapKey_serialize_int(value) == key_must_be_a_string
\* serialize_f32, serialize_f64
MapKey_serialize_float(value) == key_must_be_a_string
MapKey_serialize_char(value) == key_must_be_a_string
MapKey_serialize_bytes(value) == key_must_be_a_string
\* serialize_unit, serialize_unit_struct
MapKey_serialize_unit == key_must_be_a_string
MapKey_serialize_newtype_variant(variant, value) == key_must_be_a_string
MapKey_serialize_none == key_must_be_a_string
MapKey_serialize_some(value) == key_must_be_a_string
\* serialize_seq, serialize_tuple, serialize_tuple_struct,
\* serialize_tuple_variant, serialize_map, serialize_struct,
\* serialize_struct_variant: no builder is handed out
MapKey_serialize_compound == key_must_be_a_string

RECURSIVE KeySerialize(_)
\* serialize_newtype_struct: value.serialize(self)
MapKey_serialize_newtype_struct(value) == KeySerialize(value)

\* key.serialize(MapKeySerializer {}): the key's Serialize impl calls the
\* method of its shape
KeySerialize(x) ==
    CASE x.kind = "str" -> MapKey_serialize_str(x.s)
      [] x.kind = "unit_variant" -> MapKey_serialize_unit_variant(x.s)
      [] x.kind = "newtype_struct" -> MapKey_serialize_newtype_struct(x.xs[1])
      [] x.kind = "bool" -> MapKey_serialize_bool(x.b)
      [] x.kind \in IntKinds -> MapKey_serialize_int(x.n)
      [] x.kind \in {"f32", "f64"} -> MapKey_serialize_float(x.s)
      [] x.kind = "char" -> MapKey_serialize_char(x.s)
      [] x.kind = "bytes" -> MapKey_serialize_bytes(x.by)
      [] x.kind \in {"unit", "unit_struct"} -> MapKey_serialize_unit
      [] x.kind = "newtype_variant" -> MapKey_serialize_newtype_variant(x.s, x.xs[1])
      [] x.kind = "none" -> MapKey_serialize_none
      [] x.kind = "some" -> MapKey_serialize_some(x.xs[1])
      [] x.kind \in {"seq", "tuple", "tuple_struct", "tuple_variant",
                     "map", "struct", "struct_variant"} -> MapKey_serialize_compound
      [] x.kind = "fail" -> KeyErr("Custom")

(***************************************************************************)
(* Serializer: the other methods, and the builders it hands out.  A        *)
(* builder step yields [st, res, panic]: the builder after the step, what  *)
(* the step returns, and whether it panicked instead of returning.         *)
(***************************************************************************)
RECURSIVE Serialize(_)
RECURSIVE to_value(_)

serialize_bool(value) == Ok(Bool(value))
serialize_f64(value) == Ok(F64V(value))
\* f64::from(value) is exact
serialize_f32(value) == serialize_f64(value)
serialize_str(value) == Ok(String(value))
\* the one-character string
serialize_char(value) == serialize_str(value)
serialize_bytes(value) == Ok(Array([j \in 1..Len(value) |-> I64V(Word(value[j]))]))
\* a unit encoded as the text of null
serialize_unit_as_string == Ok(String("null"))
serialize_unit == Ok(Null)
serialize_unit_struct == serialize_unit
serialize_none == serialize_unit
serialize_some(value) == Serialize(value)
serialize_newtype_struct(value) == Serialize(value)

\* a bare alternative encoded like the data-carrying ones
serialize_unit_variant_as_object(variant) ==
    Ok(Object(HashMapInsert(ObjectNew, variant, Null).map))

serialize_unit_variant(variant) == serialize_str(variant)

serialize_newtype_variant(variant, value) ==
    IF to_value(value).ok
    THEN Ok(Object(HashMapInsert(ObjectNew, variant, to_value(value).val).map))
    ELSE to_value(value)

\* a sequence that starts with as many entries as the hint announces
serialize_seq_prefilled(len) ==
    [vec |-> [j \in 1..(IF len = None THEN 0 ELSE Unwrap(len)) |-> Null]]

\* Vec::with_capacity(len.unwrap_or(0)): the capacity is no part of the value
serialize_seq(len) == [vec |-> <<>>]
serialize_tuple(len) == serialize_seq(Some(len))
serialize_tuple_struct(len) == serialize_seq(Some(len))
serialize_tuple_variant(variant, len) == [name |-> variant, vec |-> <<>>]
serialize_map(len) == [map |-> ObjectNew, next_key |-> None]
serialize_struct(len) == serialize_map(Some(len))
serialize_struct_variant(variant, len) == [name |-> variant, map |-> ObjectNew]

Step(st, res) == [st |-> st, res |-> res, panic |-> FALSE]
\* a step that panics returns nothing: res only fills the field
Panic(st) == [st |-> st, res |-> Err(""), panic |-> TRUE]

\* an element step that swallows the failure of its element
SerializeVec_serialize_element_swallow(st, value) ==
    IF to_value(value).ok
    THEN Step([st EXCEPT !.vec = VecPush(@, to_value(value).val)], OkUnit)
    ELSE Step(st, OkUnit)

\* SerializeSeq, SerializeTuple and SerializeTupleStruct for SerializeVec
SerializeVec_serialize_element(st, value) ==
    IF to_value(value).ok
    THEN Step([st EXCEPT !.vec = VecPush(@, to_value(value).val)], OkUnit)
    ELSE Step(st, to_value(value))
SerializeVec_end(st) == Ok(Array(st.vec))

SerializeTupleVariant_serialize_field(st, value) ==
    IF to_value(value).ok
    THEN Step([st EXCEPT !.vec = VecPush(@, to_value(value).val)], OkUnit)
    ELSE Step(st, to_value(value))
SerializeTupleVariant_end(st) ==
    Ok(Object(HashMapInsert(ObjectNew, st.name, Array(st.vec)).map))

SerializeMap_serialize_key(st, key) ==
    IF KeySerialize(key).ok
    THEN Step([st EXCEPT !.next_key = Some(KeySerialize(key).val)], OkUnit)
    ELSE Step(st, Err(KeySerialize(key).err))

\* a value step that reports the missing key as an error
SerializeMap_serialize_value_err(st, value) ==
    IF st.next_key = None
    THEN Step(st, Err("KeyMustBeAString"))
    ELSE IF to_value(value).ok
    THEN Step([map |-> HashMapInsert(st.map, Unwrap(st.next_key), to_value(value).val).map,
               next_key |-> None], OkUnit)
    ELSE Step([st EXCEPT !.next_key = None], to_value(value))

\* a value step that leaves the key pending
SerializeMap_serialize_value_keep_key(st, value) ==
    IF st.next_key = None
    THEN Panic(st)
    ELSE IF to_value(value).ok
    THEN Step([st EXCEPT !.map = HashMapInsert(st.map, Unwrap(st.next_key), to_value(value).val).map],
              OkUnit)
    ELSE Step(st, to_value(value))

\* next_key.take(), then expect, then to_value, then insert
SerializeMap_serialize_value(st, value) ==
    IF st.next_key = None
    THEN Panic([st EXCEPT !.next_key = None])
    ELSE IF to_value(value).ok
    THEN Step([map |-> HashMapInsert(st.map, Unwrap(st.next_key), to_value(value).val).map,
               next_key |-> None], OkUnit)
    ELSE Step([st EXCEPT !.next_key = None], to_value(value))

SerializeMap_end(st) == Ok(Object(st.map))

\* serde's provided SerializeMap::serialize_entry: the key step, then the
\* value step
SerializeMap_serialize_entry(st, key, value) ==
    IF SerializeMap_serialize_key(st, key).res.ok
    THEN SerializeMap_serialize_value(SerializeMap_serialize_key(st, key).st, value)
    ELSE SerializeMap_serialize_key(st, key)

\* SerializeStruct for SerializeMap: the key is a &'static str
SerializeStruct_serialize_field(st, key, value) ==
    IF SerializeMap_serialize_key(st, InStr(key)).res.ok
    THEN SerializeMap_serialize_value(SerializeMap_serialize_key(st, InStr(key)).st, value)
    ELSE SerializeMap_serialize_key(st, InStr(key))
SerializeStruct_end(st) == SerializeMap_end(st)

SerializeStructVariant_serialize_field(st, key, value) ==
    IF to_value(value).ok
    THEN Step([st EXCEPT !.map = HashMapInsert(@, key, to_value(value).val).map], OkUnit)
    ELSE Step(st, to_value(value))

\* a labeled-field alternative that forgets the wrapping Object
SerializeStructVariant_end_unwrapped(st) == Ok(Object(st.map))

SerializeStructVariant_end(st) ==
    Ok(Object(HashMapInsert(ObjectNew, st.name, Object(st.map)).map))

(***************************************************************************)
(* The Serialize impls of the inputs: a compound opens its builder, feeds  *)
(* it one child at a time, returns at the first error (`?`), and ends it,  *)
(* as the impl of Serialize for Value does for its Array and Object.       *)
(***************************************************************************)
RECURSIVE EachElement(_, _)
EachElement(st, xs) ==
    IF xs = <<>> THEN SerializeVec_end(st)
    ELSE IF SerializeVec_serialize_element(st, Head(xs)).res.ok
    THEN EachElement(SerializeVec_serialize_element(st, Head(xs)).st, Tail(xs))
    ELSE SerializeVec_serialize_element(st, Head(xs)).res

RECURSIVE EachVariantElement(_, _)
EachVariantElement(st, xs) ==
    IF xs = <<>> THEN SerializeTupleVariant_end(st)
    ELSE IF SerializeTupleVariant_serialize_field(st, Head(xs)).res.ok
    THEN EachVariantElement(SerializeTupleVariant_serialize_field(st, Head(xs)).st, Tail(xs))
    ELSE SerializeTupleVariant_serialize_field(st, Head(xs)).res

RECURSIVE EachEntry(_, _)
EachEntry(st, kv) ==
    IF kv = <<>> THEN SerializeMap_end(st)
    ELSE IF SerializeMap_serialize_entry(st, Head(kv)[1], Head(kv)[2]).res.ok
    THEN EachEntry(SerializeMap_serialize_entry(st, Head(kv)[1], Head(kv)[2]).st, Tail(kv))
    ELSE SerializeMap_serialize_entry(st, Head(kv)[1], Head(kv)[2]).res

RECURSIVE EachField(_, _)
EachField(st, fs) ==
    IF fs = <<>> THEN SerializeStruct_end(st)
    ELSE IF SerializeStruct_serialize_field(st, Head(fs)[1], Head(fs)[2]).res.ok
    THEN EachField(SerializeStruct_serialize_field(st, Head(fs)[1], Head(fs)[2]).st, Tail(fs))
    ELSE SerializeStruct_serialize_field(st, Head(fs)[1], Head(fs)[2]).res

RECURSIVE EachVariantField(_, _)
EachVariantField(st, fs) ==
    IF fs = <<>> THEN SerializeStructVariant_end(st)
    ELSE IF SerializeStructVariant_serialize_field(st, Head(fs)[1], Head(fs)[2]).res.ok
    THEN EachVariantField(SerializeStructVariant_serialize_field(st, Head(fs)[1], Head(fs)[2]).st, Tail(fs))
    ELSE SerializeStructVariant_serialize_field(st, Head(fs)[1], Head(fs)[2]).res

\* value.serialize(Serializer {})
Serialize(x) ==
    CASE x.kind = "bool" -> serialize_bool(x.b)
      [] x.kind = "i8" -> serialize_i8(x.n)
      [] x.kind = "i16" -> serialize_i16(x.n)
      [] x.kind = "i32" -> serialize_i32(x.n)
      [] x.kind = "i64" -> serialize_i64(x.n)
      [] x.kind = "u8" -> serialize_u8(x.n)
      [] x.kind = "u16" -> serialize_u16(x.n)
      [] x.kind = "u32" -> serialize_u32(x.n)
      [] x.kind = "u64" -> serialize_u64(x.n)
      [] x.kind = "f32" -> serialize_f32(x.s)
      [] x.kind = "f64" -> serialize_f64(x.s)
      [] x.kind = "char" -> serialize_char(x.s)
      [] x.kind = "str" -> serialize_str(x.s)
      [] x.kind = "bytes" -> serialize_bytes(x.by)
      [] x.kind = "unit" -> serialize_unit
      [] x.kind = "unit_struct" -> serialize_unit_struct
      [] x.kind = "none" -> serialize_none
      [] x.kind = "some" -> serialize_some(x.xs[1])
      [] x.kind = "newtype_struct" -> serialize_newtype_struct(x.xs[1])
      [] x.kind = "unit_variant" -> serialize_unit_variant(x.s)
      [] x.kind = "newtype_variant" -> serialize_newtype_variant(x.s, x.xs[1])
      [] x.kind = "seq" -> EachElement(serialize_seq(x.hint), x.xs)
      [] x.kind = "tuple" -> EachElement(serialize_tuple(Len(x.xs)), x.xs)
      [] x.kind = "tuple_struct" -> EachElement(serialize_tuple_struct(Len(x.xs)), x.xs)
      [] x.kind = "tuple_variant" ->
            EachVariantElement(serialize_tuple_variant(x.s, Len(x.xs)), x.xs)
      [] x.kind = "map" -> EachEntry(serialize_map(Some(Len(x.kv))), x.kv)
      [] x.kind = "struct" -> EachField(serialize_struct(Len(x.fs)), x.fs)
      [] x.kind = "struct_variant" ->
            EachVariantField(serialize_struct_variant(x.s, Len(x.fs)), x.fs)
      [] x.kind = "fail" -> Err("Custom")

\* owned::to_value: the entry point every recursive step goes through
to_value(value) == Serialize(value)

(***************************************************************************)
(* SpecNum: the inputs are drawn at the limits of every integer type.      *)
(***************************************************************************)
FixedTypes == {I8, I16, I32, I64, I128, U8, U16, U32, U64, U128}
Edges ==
    {Zero, One, Neg(One)}
        \cup UNION {{MinOf(T), Sub(MinOf(T), One), MaxOf(T), Add(MaxOf(T), One)} : T \in FixedTypes}
InRange(x, T) == Leq(MinOf(T), x) /\ Leq(x, MaxOf(T))
SamplesI8 == {x \in Edges : InRange(x, I8)}
SamplesI16 == {x \in Edges : InRange(x, I16)}
SamplesI32 == {x \in Edges : InRange(x, I32)}
SamplesI64 == {x \in Edges : InRange(x, I64)}
SamplesU8 == {x \in Edges : InRange(x, U8)}
SamplesU16 == {x \in Edges : InRange(x, U16)}
SamplesU32 == {x \in Edges : InRange(x, U32)}
SamplesU64 == {x \in Edges : InRange(x, U64)}
Opt(S) == {None} \cup {Some(x) : x \in S}

\* the machines a specification does not run stay as constructed
IdleNum == self_i64 = None /\ self_u64 = None /\ usize_bits = 64
IdleValue == this = Null /\ prev = Null /\ log = <<>>
IdleEnc == input = InUnit
IdleSer ==
    /\ builder = [map |-> <<>>, next_key |-> None]
    /\ before = builder
    /\ phase = "open"
    /\ nsteps = 0

NoCall == [name |-> "", arg |-> None, ret |-> None]

InitNum ==
    \* each derived accessor reads one canonical accessor: one of the two
    \* ranges over every sample while the other is absent or zero
    /\ \/ self_i64 \in Opt(SamplesI64) /\ self_u64 \in {None, Some(Zero)}
       \/ self_i64 \in {None, Some(Zero)} /\ self_u64 \in Opt(SamplesU64)
    /\ usize_bits \in {32, 64}
    /\ call = NoCall
    /\ IdleValue
    /\ IdleEnc
    /\ IdleSer

Accessor(name, ret) ==
    /\ call' = [name |-> name, arg |-> None, ret |-> ret]
    /\ UNCHANGED <<numVars, domVars, encVars, serVars>>

As_i128 == Accessor("as_i128", as_i128)
As_i32 == Accessor("as_i32", as_i32)
As_i16 == Accessor("as_i16", as_i16)
As_i8 == Accessor("as_i8", as_i8)
As_u128 == Accessor("as_u128", as_u128)
As_usize == Accessor("as_usize", as_usize)
As_u32 == Accessor("as_u32", as_u32)
As_u16 == Accessor("as_u16", as_u16)
As_u8 == Accessor("as_u8", as_u8)

Encode(name, value, ret) ==
    /\ call' = [name |-> name, arg |-> Some(value), ret |-> ret]
    /\ UNCHANGED <<numVars, domVars, encVars, serVars>>

Serialize_i8 == \E v \in SamplesI8 : Encode("serialize_i8", v, serialize_i8(v))
Serialize_i16 == \E v \in SamplesI16 : Encode("serialize_i16", v, serialize_i16(v))
Serialize_i32 == \E v \in SamplesI32 : Encode("serialize_i32", v, serialize_i32(v))
Serialize_i64 == \E v \in SamplesI64 : Encode("serialize_i64", v, serialize_i64(v))
Serialize_u8 == \E v \in SamplesU8 : Encode("serialize_u8", v, serialize_u8(v))
Serialize_u16 == \E v \in SamplesU16 : Encode("serialize_u16", v, serialize_u16(v))
Serialize_u32 == \E v \in SamplesU32 : Encode("serialize_u32", v, serialize_u32(v))
Serialize_u64 == \E v \in SamplesU64 : Encode("serialize_u64", v, serialize_u64(v))

NextNum ==
    \/ As_i128 \/ As_i32 \/ As_i16 \/ As_i8
    \/ As_u128 \/ As_usize \/ As_u32 \/ As_u16 \/ As_u8
    \/ Serialize_i8 \/ Serialize_i16 \/ Serialize_i32 \/ Serialize_i64
    \/ Serialize_u8 \/ Serialize_u16 \/ Serialize_u32 \/ Serialize_u64

SpecNum == InitNum /\ [][NextNum]_vars

(***************************************************************************)
(* SpecValue: a value as constructed (null(), array(), object(), or a      *)
(* conversion from a primitive), then any calls in any order.              *)
(***************************************************************************)
MaxOps == 3

Keys == {"key", "other"}
Elems == {I64V(Word(42)), String("zero")}
Constructed == {Null, Bool(TRUE), I64V(Word(1)), F64V("1.5"), String("zero"), Array(<<>>), Object(<<>>)}

InitValue ==
    /\ this \in Constructed
    /\ prev = this
    /\ log = <<>>
    /\ call = NoCall
    /\ IdleNum
    /\ IdleEnc
    /\ IdleSer

\* a call through &mut self that extends the history when it returns Ok
Mutator(name, arg, r) ==
    /\ Len(log) < MaxOps
    /\ this' = r.self
    /\ prev' = this
    /\ log' = IF r.ret.ok THEN Append(log, [name |-> name, arg |-> arg]) ELSE log
    /\ call' = [name |-> name, arg |-> arg, ret |-> r.ret]
    /\ UNCHANGED <<numVars, encVars, serVars>>

\* a lookup: what it returns, and `self` after it
Lookup(name, arg, self, ret) ==
    /\ this' = self
    /\ prev' = this
    /\ call' = [name |-> name, arg |-> arg, ret |-> ret]
    /\ UNCHANGED <<log, numVars, encVars, serVars>>

Insert == \E k \in Keys, x \in Elems : Mutator("insert", [k |-> k, x |-> x], insert(this, k, x))
Remove == \E k \in Keys : Mutator("remove", [k |-> k, x |-> Null], remove(this, k))
Push == \E x \in Elems : Mutator("push", [k |-> "", x |-> x], push(this, x))
Pop == Mutator("pop", [k |-> "", x |-> Null], pop(this))
Get == \E k \in Keys : Lookup("get", [k |-> k, i |-> 0], this, get(this, k))
GetMut == \E k \in Keys : Lookup("get_mut", [k |-> k, i |-> 0], get_mut(this, k).self, get_mut(this, k).ret)
GetIdx == \E i \in 0..MaxOps : Lookup("get_idx", [k |-> "", i |-> i], this, get_idx(this, i))
GetIdxMut == \E i \in 0..MaxOps : Lookup("get_idx_mut", [k |-> "", i |-> i], get_idx_mut(this, i).self, get_idx_mut(this, i).ret)

NextValue == Insert \/ Remove \/ Push \/ Pop \/ Get \/ GetMut \/ GetIdx \/ GetIdxMut

SpecValue == InitValue /\ [][NextValue]_vars

(***************************************************************************)
(* SpecEnc: to_value applied to one input, drawn from the shapes of the    *)
(* data model with up to MaxLen children and up to three levels.           *)
(***************************************************************************)
MaxLen == 2

SeqsUpTo(S, n) == UNION {[1..m -> S] : m \in 0..n}

OneOfEachPrimitive ==
    {InBool(TRUE), InF32("1.5"), InF64("1.5"), InChar("c"), InStr("a"), InBytes(<<1, 255>>),
     InUnit, InUnitStruct, InNone, InUnitVariant("Foo"), InFail,
     InInt("u64", MaxOf(U64))}
        \cup {InInt(kind, Word(5)) : kind \in IntKinds}
ElemIn == {InInt("i64", Word(1)), InInt("i64", Word(2)), InStr("a"), InFail}
KeyIn ==
    {InStr("a"), InStr("b"), InUnitVariant("Foo"), InInt("i64", Word(5)),
     InNewtypeStruct(InStr("a")), InNewtypeStruct(InInt("i64", Word(5))), InFail}
ValIn == {InInt("i64", Word(1)), InInt("i64", Word(2)), InFail}
FieldNames == {"x", "y"}
Hints == {None, Some(0), Some(5)}

Level1 ==
    OneOfEachPrimitive
        \cup {InSome(x) : x \in OneOfEachPrimitive}
        \cup {InNewtypeStruct(x) : x \in OneOfEachPrimitive}
        \cup {InNewtypeVariant("Foo", x) : x \in OneOfEachPrimitive}
        \cup {InSeq(h, xs) : h \in Hints, xs \in SeqsUpTo(ElemIn, MaxLen)}
        \cup {InTuple(xs) : xs \in SeqsUpTo(ElemIn, MaxLen)}
        \cup {InTupleStruct(xs) : xs \in SeqsUpTo(ElemIn, MaxLen)}
        \cup {InTupleVariant("Foo", xs) : xs \in SeqsUpTo(ElemIn, MaxLen)}
        \cup {InMap(kv) : kv \in SeqsUpTo(KeyIn \X ValIn, MaxLen)}
        \cup {InStruct(fs) : fs \in SeqsUpTo(FieldNames \X ValIn, MaxLen)}
        \cup {InStructVariant("Foo", fs) : fs \in SeqsUpTo(FieldNames \X ValIn, MaxLen)}

Nested ==
    {InSeq(None, <<InInt("i64", Word(1)), InInt("i64", Word(2))>>),
     InSeq(None, <<InInt("i64", Word(1)), InFail>>),
     InMap(<<<<InStr("a"), InInt("i64", Word(1))>>>>),
     InMap(<<<<InInt("i64", Word(5)), InInt("i64", Word(1))>>>>),
     InTupleVariant("Bar", <<InInt("i64", Word(1)), InInt("i64", Word(2))>>),
     InStructVariant("Bar", <<<<"x", InInt("i64", Word(1))>>>>),
     InNewtypeVariant("Bar", InInt("i64", Word(5))),
     InSome(InStr("a"))}

Level2 ==
    UNION {{InSome(x), InNewtypeStruct(x), InNewtypeVariant("Foo", x),
            InSeq(None, <<x>>), InSeq(None, <<InStr("a"), x>>),
            InTupleVariant("Foo", <<x>>),
            InMap(<<<<InStr("a"), x>>>>), InMap(<<<<x, InStr("a")>>>>),
            InStruct(<<<<"x", x>>>>),
            InStructVariant("Foo", <<<<"x", x>>>>)} : x \in Nested}

Inputs == Level1 \cup Level2

InitEnc ==
    /\ input \in Inputs
    /\ call = NoCall
    /\ IdleNum
    /\ IdleValue
    /\ IdleSer

ToValue ==
    /\ call' = [name |-> "to_value", arg |-> None, ret |-> to_value(input)]
    /\ UNCHANGED <<numVars, domVars, encVars, serVars>>

NextEnc == ToValue

SpecEnc == InitEnc /\ [][NextEnc]_vars

(***************************************************************************)
(* SpecSer: a visitor driving one SerializeMap step by step, in any order, *)
(* as a Serialize impl is free to: key steps, value steps, struct field    *)
(* steps, then end.                                                        *)
(***************************************************************************)
MaxSteps == 4

StepKeys ==
    OneOfEachPrimitive
        \cup {InSome(InStr("a")), InNewtypeVariant("Foo", InStr("a")),
              InNewtypeStruct(InStr("a")), InNewtypeStruct(InInt("i64", Word(5))),
              InNewtypeStruct(InNewtypeStruct(InUnitVariant("Foo"))),
              InSeq(None, <<>>), InSeq(Some(1), <<InStr("a")>>),
              InTuple(<<InStr("a")>>), InTupleStruct(<<InStr("a")>>),
              InTupleVariant("Foo", <<InStr("a")>>),
              InMap(<<>>), InMap(<<<<InStr("a"), InStr("a")>>>>),
              InStruct(<<>>), InStructVariant("Foo", <<>>)}
StepVals ==
    {InInt("i64", Word(1)), InInt("i64", Word(2)), InFail,
     InMap(<<<<InInt("i64", Word(5)), InInt("i64", Word(1))>>>>)}

InitSer ==
    /\ builder = serialize_map(None)
    /\ before = builder
    /\ phase = "open"
    /\ nsteps = 0
    /\ call = NoCall
    /\ IdleNum
    /\ IdleValue
    /\ IdleEnc

BuilderStep(name, arg, r) ==
    /\ phase = "open"
    /\ nsteps < MaxSteps
    /\ builder' = r.st
    /\ before' = builder
    /\ phase' = IF r.panic THEN "panicked" ELSE "open"
    /\ nsteps' = nsteps + 1
    /\ call' = [name |-> name, arg |-> arg, ret |-> r.res]
    /\ UNCHANGED <<numVars, domVars, encVars>>

SerializeKey ==
    \E k \in StepKeys :
        BuilderStep("serialize_key", [key |-> k, value |-> InUnit],
                    SerializeMap_serialize_key(builder, k))
SerializeValue ==
    \E v \in StepVals :
        BuilderStep("serialize_value", [key |-> InUnit, value |-> v],
                    SerializeMap_serialize_value(builder, v))
SerializeField ==
    \E f \in FieldNames, v \in StepVals :
        BuilderStep("serialize_field", [key |-> InStr(f), value |-> v],
                    SerializeStruct_serialize_field(builder, f, v))
End ==
    /\ phase = "open"
    /\ phase' = "ended"
    /\ before' = builder
    /\ call' = [name |-> "end", arg |-> [key |-> InUnit, value |-> InUnit],
                ret |-> SerializeMap_end(builder)]
    /\ UNCHANGED <<builder, nsteps, numVars, domVars, encVars>>

NextSer == SerializeKey \/ SerializeValue \/ SerializeField \/ End

SpecSer == InitSer /\ [][NextSer]_vars

(***************************************************************************)
(* The decode engine of spec section 4.2, over the cursor of section 6.    *)
(* The input is the token stream the tokenizer hands over: one token per   *)
(* structural byte, with the raw text of a string or number token.  The    *)
(* cursor stands on a token (idx = 0: before the first); its buffer is     *)
(* padded, so that past the last token it reads the byte NUL.              *)
(***************************************************************************)
Tok(byte, raw) == [byte |-> byte, raw |-> raw]
Punct(b) == Tok(b, b)
Str(raw) == Tok("\"", raw)
NUL == "NUL"
Digits == {"0", "1", "2", "3", "4", "5", "6", "7", "8", "9"}

\* the bytes a token takes in the buffer: a string has its two quotes
Width(tok) == IF tok.byte = "\"" THEN Len(tok.raw) + 2 ELSE Len(tok.raw)

RECURSIVE Offset(_, _)
\* the byte offset of the i-th token; of the end of the input for i past it
Offset(toks, i) ==
    IF i <= 1 THEN 0
    ELSE IF i > Len(toks) + 1 THEN Offset(toks, Len(toks) + 1)
    ELSE Offset(toks, i - 1) + Width(toks[i - 1])

\* the structural byte the cursor stands on
ByteAt(doc, idx) == IF idx \in 1..Len(doc.toks) THEN doc.toks[idx].byte ELSE NUL

\* Result<T> of the decode engine: the error carries the byte offset
DOk(x) == [ok |-> TRUE, val |-> x, err |-> "", at |-> 0]
DErr(e, at) == [ok |-> FALSE, val |-> Null, err |-> e, at |-> at]

\* an error that reports the start of the input
error_at_start(doc, idx, category) == DErr(category, 0)

\* error-at-current-position(category)
error(doc, idx, category) == DErr(category, Offset(doc.toks, idx))

\* what a parse leaves: the cursor and the result
Parsed(idx, res) == [idx |-> idx, res |-> res]

\* skip-past-current-token
skip(idx) == idx + 1

RECURSIVE CountCommas(_, _, _, _)
\* the commas of the container that are not inside a nested one
CountCommas(toks, i, depth, commas) ==
    IF i > Len(toks) THEN commas
    ELSE IF toks[i].byte \in {"[", "{"} THEN CountCommas(toks, i + 1, depth + 1, commas)
    ELSE IF toks[i].byte \in {"]", "}"}
    THEN IF depth = 0 THEN commas ELSE CountCommas(toks, i + 1, depth - 1, commas)
    ELSE IF toks[i].byte = "," /\ depth = 0 THEN CountCommas(toks, i + 1, depth, commas + 1)
    ELSE CountCommas(toks, i + 1, depth, commas)

\* look-ahead element count of the container the cursor stands on; a
\* document may carry a count for the look-ahead to report instead
count_elements(doc, idx) ==
    IF doc.lie # None THEN Unwrap(doc.lie)
    ELSE IF ByteAt(doc, idx + 1) \in {"]", "}", NUL} THEN 0
    ELSE CountCommas(doc.toks, idx + 1, 0, 0) + 1

\* the escape sequences of the raw strings of the model
Escaped == {"\\u0061", "a\\n"}
BadEscapes == {"\\q"}
Unescape(raw) ==
    CASE raw = "\\u0061" -> "a"
      [] raw = "a\\n" -> "a\n"
      [] OTHER -> raw

\* Cow<str>: a view into the buffer, or an allocation of its own
CowBorrowed(off, s) == [cow |-> "Borrowed", off |-> off, s |-> s]
CowOwned(s) == [cow |-> "Owned", off |-> 0, s |-> s]

\* extract-current-string: zero-copy unless escapes are present
parse_str(doc, idx) ==
    IF ByteAt(doc, idx) # "\"" THEN error(doc, idx, "ExpectedString")
    ELSE IF doc.toks[idx].raw \in BadEscapes THEN error(doc, idx, "InvalidEscape")
    ELSE IF doc.toks[idx].raw \in Escaped THEN DOk(CowOwned(Unescape(doc.toks[idx].raw)))
    ELSE DOk(CowBorrowed(Offset(doc.toks, idx) + 1, doc.toks[idx].raw))

\* Number: the tagged numeric the tokenizer produces
NumI64(n) == [tag |-> "I64", n |-> n, x |-> ""]
NumF64(x) == [tag |-> "F64", n |-> 0, x |-> x]
NumberOf(doc, idx) ==
    CASE doc.toks[idx].raw = "1" -> DOk(NumI64(1))
      [] doc.toks[idx].raw = "2" -> DOk(NumI64(2))
      [] doc.toks[idx].raw = "-1" -> DOk(NumI64(0 - 1))
      [] doc.toks[idx].raw = "1.5" -> DOk(NumF64("1.5"))
      [] OTHER -> error(doc, idx, "InvalidNumber")
\* parse-number-at-root(negative-flag) and parse-number-nested(negative-flag)
parse_number_root(doc, idx, negative) == NumberOf(doc, idx)
parse_number(doc, idx, negative) == NumberOf(doc, idx)

(***************************************************************************)
(* The two representations the engine is generic over.  An Owned string is *)
(* a copy; a Borrowed string keeps the Cow it was given.  A Borrowed value *)
(* is the Value record with the field cow added.                           *)
(***************************************************************************)
Reprs == {"owned", "borrowed"}
Lift(v, c) == [f \in DOMAIN v \cup {"cow"} |-> IF f = "cow" THEN c ELSE v[f]]
As(repr, v) == IF repr = "owned" THEN v ELSE Lift(v, "")

\* a Borrowed string that keeps the raw text of the buffer
from_str_raw(repr, cow, raw) ==
    IF repr = "owned" THEN String(cow.s) ELSE Lift(String(raw), "Borrowed")

from_str(repr, cow, raw) ==
    IF repr = "owned" THEN String(cow.s) ELSE Lift(String(cow.s), cow.cow)
from_number(repr, num) ==
    As(repr, IF num.tag = "I64" THEN I64V(Word(num.n)) ELSE F64V(num.x))
from_bool(repr, b) == As(repr, Bool(b))
null(repr) == As(repr, Null)
from_vec(repr, vec) == As(repr, Array(vec))
from_map(repr, map) == As(repr, Object(map))

\* an insertion that keeps the first value of a key
insert_nocheck_first(map, key, v) == IF HasKey(map, key) THEN map ELSE Append(map, <<key, v>>)

\* the duplicate-unchecked insertion: last write wins
insert_nocheck(map, key, v) == HashMapInsert(map, key, v).map

(***************************************************************************)
(* The recursive descent.  A value is parsed from the cursor's next        *)
(* structural byte and leaves the cursor on the value's last token.        *)
(***************************************************************************)
RECURSIVE parse_value(_, _, _, _)
RECURSIVE parse_array_elements(_, _, _, _, _)
RECURSIVE parse_map_entries(_, _, _, _, _)

\* for each counted element: parse a value, then skip to the next token
parse_array_elements(doc, idx, repr, es, res) ==
    IF es = 0 THEN Parsed(idx, DOk(from_vec(repr, res)))
    ELSE IF parse_value(doc, idx, FALSE, repr).res.ok
    THEN parse_array_elements(doc, skip(parse_value(doc, idx, FALSE, repr).idx), repr, es - 1,
                              VecPush(res, parse_value(doc, idx, FALSE, repr).res.val))
    ELSE parse_value(doc, idx, FALSE, repr)

\* an array that loops even when the look-ahead counts no element
parse_array_unguarded(doc, idx, repr) ==
    parse_array_elements(doc, idx, repr, count_elements(doc, idx) + 1, <<>>)

\* the count is looked ahead; zero skips the token and returns at once
parse_array(doc, idx, repr) ==
    IF count_elements(doc, idx) = 0
    THEN Parsed(skip(idx), DOk(from_vec(repr, <<>>)))
    ELSE parse_array_elements(doc, idx, repr, count_elements(doc, idx), <<>>)

\* for each counted entry: skip, parse the string key, skip, parse the
\* value, insert, skip
parse_map_entries(doc, idx, repr, es, res) ==
    IF es = 0 THEN Parsed(idx, DOk(from_map(repr, res)))
    ELSE IF ~parse_str(doc, skip(idx)).ok THEN Parsed(skip(idx), parse_str(doc, skip(idx)))
    ELSE IF parse_value(doc, skip(skip(idx)), FALSE, repr).res.ok
    THEN parse_map_entries(doc, skip(parse_value(doc, skip(skip(idx)), FALSE, repr).idx), repr, es - 1,
                           insert_nocheck(res, parse_str(doc, skip(idx)).val.s,
                                          parse_value(doc, skip(skip(idx)), FALSE, repr).res.val))
    ELSE parse_value(doc, skip(skip(idx)), FALSE, repr)

parse_map(doc, idx, repr) ==
    IF count_elements(doc, idx) = 0
    THEN Parsed(skip(idx), DOk(from_map(repr, <<>>)))
    ELSE parse_map_entries(doc, idx, repr, count_elements(doc, idx), <<>>)

\* a Result<X> carried over as a Result<Value>
MapOk(res, v) == IF res.ok THEN DOk(v) ELSE res

\* the dispatch on the next structural byte; root: at the true entry point
parse_value(doc, idx, root, repr) ==
    CASE ByteAt(doc, idx + 1) = "\"" ->
            Parsed(idx + 1,
                   IF parse_str(doc, idx + 1).ok
                   THEN DOk(from_str(repr, parse_str(doc, idx + 1).val, doc.toks[idx + 1].raw))
                   ELSE parse_str(doc, idx + 1))
      [] ByteAt(doc, idx + 1) \in Digits \cup {"-"} ->
            Parsed(idx + 1,
                   IF root
                   THEN IF parse_number_root(doc, idx + 1, ByteAt(doc, idx + 1) = "-").ok
                        THEN DOk(from_number(repr, parse_number_root(doc, idx + 1, ByteAt(doc, idx + 1) = "-").val))
                        ELSE parse_number_root(doc, idx + 1, ByteAt(doc, idx + 1) = "-")
                   ELSE IF parse_number(doc, idx + 1, ByteAt(doc, idx + 1) = "-").ok
                        THEN DOk(from_number(repr, parse_number(doc, idx + 1, ByteAt(doc, idx + 1) = "-").val))
                        ELSE parse_number(doc, idx + 1, ByteAt(doc, idx + 1) = "-"))
      [] ByteAt(doc, idx + 1) = "n" -> Parsed(idx + 1, DOk(null(repr)))
      [] ByteAt(doc, idx + 1) = "t" -> Parsed(idx + 1, DOk(from_bool(repr, TRUE)))
      [] ByteAt(doc, idx + 1) = "f" -> Parsed(idx + 1, DOk(from_bool(repr, FALSE)))
      [] ByteAt(doc, idx + 1) = "[" -> parse_array(doc, idx + 1, repr)
      [] ByteAt(doc, idx + 1) = "{" -> parse_map(doc, idx + 1, repr)
      [] OTHER -> Parsed(idx + 1, error(doc, idx + 1, "UnexpectedCharacter"))

\* the decode entry point, for each target value type
to_value_of(doc, repr) == parse_value(doc, 0, TRUE, repr).res
to_owned_value(doc) == to_value_of(doc, "owned")
to_borrowed_value(doc) == to_value_of(doc, "borrowed")

(***************************************************************************)
(* SpecDec: one token stream, decoded into an Owned or a Borrowed value.   *)
(* The streams are every sequence of up to MaxTokens tokens of Alphabet,   *)
(* well-formed or not, some longer documents, and short documents whose    *)
(* look-ahead reports a count of its own.                                  *)
(***************************************************************************)
MaxTokens == 3
MaxCount == 2

Alphabet ==
    {Punct("["), Punct("]"), Punct("{"), Punct("}"), Punct(","), Punct(":"),
     Str("a"), Tok("1", "1"), Punct("x")}

Doc(toks) == [toks |-> toks, lie |-> None]
Miscounted(toks, n) == [toks |-> toks, lie |-> Some(n)]

Longer ==
    {<<Punct("{"), Str("a"), Punct(":"), Tok("1", "1"), Punct(","),
       Str("a"), Punct(":"), Tok("2", "2"), Punct("}")>>,
     <<Punct("{"), Str("a"), Punct(":"), Tok("1", "1"), Punct(","),
       Str("\\u0061"), Punct(":"), Tok("2", "2"), Punct("}")>>,
     <<Punct("{"), Str("a"), Punct(":"), Tok("1", "1"), Punct(","),
       Str("b"), Punct(":"), Tok("2", "2"), Punct("}")>>,
     <<Punct("{"), Str("a"), Punct(":"), Str("a\\n"), Punct("}")>>,
     <<Punct("{"), Str("a"), Punct(":"), Punct("x"), Punct("}")>>,
     <<Punct("{"), Str("\\q"), Punct(":"), Tok("1", "1"), Punct("}")>>,
     <<Punct("{"), Str("a"), Punct(":"), Punct("["), Tok("1", "1"), Punct(","),
       Punct("{"), Str("b"), Punct(":"), Punct("n"), Punct("}"), Punct("]"), Punct("}")>>,
     <<Punct("["), Tok("1", "1"), Punct(","), Tok("2", "2"), Punct("]")>>,
     <<Punct("["), Tok("1", "1"), Punct(","), Punct("x"), Punct("]")>>,
     <<Punct("["), Str("a"), Punct(","), Punct("+"), Punct("]")>>,
     <<Punct("["), Punct("["), Punct("x"), Punct("]"), Punct("]")>>,
     <<Punct("["), Punct("["), Punct("]"), Punct(","), Punct("{"), Punct("}"), Punct("]")>>,
     <<Punct("["), Tok("1", "1.5"), Punct(","), Tok("-", "-1"), Punct("]")>>,
     <<Punct("["), Tok("1", "1"), Punct(","), Tok("-", "-"), Punct("]")>>,
     <<Punct("["), Punct("n"), Punct(","), Punct("t"), Punct(","), Punct("f"), Punct("]")>>,
     <<Punct("["), Str("a\\n"), Punct(","), Str("\\u0061"), Punct("]")>>,
     <<Punct("["), Str("a"), Punct(","), Str("\\q"), Punct("]")>>,
     <<Str("a\\n")>>, <<Str("\\q")>>, <<Tok("-", "-1")>>, <<Tok("-", "-")>>,
     <<Punct("n")>>, <<Punct("t")>>, <<Punct("f")>>, <<Punct("+")>>, <<Punct("T")>>}

Containers ==
    {<<Punct("["), Punct("]")>>, <<Punct("{"), Punct("}")>>,
     <<Punct("["), Tok("1", "1"), Punct("]")>>,
     <<Punct("["), Tok("1", "1"), Punct(","), Tok("2", "2"), Punct("]")>>,
     <<Punct("{"), Str("a"), Punct(":"), Tok("1", "1"), Punct("}")>>,
     <<Punct("["), Punct("["), Punct("]"), Punct("]")>>}

Docs ==
    {Doc(toks) : toks \in SeqsUpTo(Alphabet, MaxTokens) \cup Longer}
        \cup {Miscounted(toks, n) : toks \in Containers, n \in 0..MaxCount}

InitDec ==
    /\ input \in Docs
    /\ call = NoCall
    /\ IdleNum
    /\ IdleValue
    /\ IdleSer

Decode(name, ret) ==
    /\ call' = [name |-> name, arg |-> None, ret |-> ret]
    /\ UNCHANGED <<numVars, domVars, encVars, serVars>>

ToOwnedValue == Decode("to_owned_value", to_owned_value(input))
ToBorrowedValue == Decode("to_borrowed_value", to_borrowed_value(input))

NextDec == ToOwnedValue \/ ToBorrowedValue

SpecDec == InitDec /\ [][NextDec]_vars

(***************************************************************************)
(* SpecObj: an Object built from entries supplied one after the other,     *)
(* with keys that may repeat: by the decode engine from an object          *)
(* document, or by the encode engine from a mapping.                       *)
(***************************************************************************)
KeyRaws == {"a", "b", "\\u0061"}
ValRaws == {"1", "2"}

RECURSIVE EntryToks(_)
\* "k":v,"k":v ... for the entries <<raw key, raw number>>
EntryToks(es) ==
    IF es = <<>> THEN <<>>
    ELSE <<Str(Head(es)[1]), Punct(":"), Tok(Head(es)[2], Head(es)[2])>>
            \o (IF Len(es) = 1 THEN <<>> ELSE <<Punct(",")>> \o EntryToks(Tail(es)))
ObjectDoc(es) == Doc(<<Punct("{")>> \o EntryToks(es) \o <<Punct("}")>>)

ObjectDocs == {ObjectDoc(es) : es \in SeqsUpTo(KeyRaws \X ValRaws, MaxLen)}
Mappings == {InMap(kv) : kv \in SeqsUpTo(KeyIn \X ValIn, MaxLen)}

IsDoc(x) == "toks" \in DOMAIN x

InitObj ==
    /\ input \in ObjectDocs \cup Mappings
    /\ call = NoCall
    /\ IdleNum
    /\ IdleValue
    /\ IdleSer

EncodeMapping == ~IsDoc(input) /\ ToValue
DecodeOwned == IsDoc(input) /\ ToOwnedValue
DecodeBorrowed == IsDoc(input) /\ ToBorrowedValue

NextObj == EncodeMapping \/ DecodeOwned \/ DecodeBorrowed

SpecObj == InitObj /\ [][NextObj]_vars

(***************************************************************************)
(* SpecVec: a visitor driving one SerializeVec step by step: the sequence  *)
(* is opened by serialize_seq, serialize_tuple or serialize_tuple_struct   *)
(* with some length, elements are offered, some of which fail, and the     *)
(* builder is ended.  log holds the elements whose step returned Ok.       *)
(***************************************************************************)
Opened(open, len) == [open |-> open, len |-> len]
Opens ==
    {Opened("serialize_seq", h) : h \in Hints}
        \cup {Opened(o, h) : o \in {"serialize_tuple", "serialize_tuple_struct"},
                             h \in Hints \ {None}}
OpenVec(o) ==
    CASE o.open = "serialize_seq" -> serialize_seq(o.len)
      [] o.open = "serialize_tuple" -> serialize_tuple(Unwrap(o.len))
      [] o.open = "serialize_tuple_struct" -> serialize_tuple_struct(Unwrap(o.len))

InitVec ==
    /\ input \in Opens
    /\ builder = OpenVec(input)
    /\ before = builder
    /\ phase = "open"
    /\ nsteps = 0
    /\ log = <<>>
    /\ this = Null
    /\ prev = Null
    /\ call = NoCall
    /\ IdleNum

SerializeElement ==
    \E v \in StepVals :
        /\ phase = "open"
        /\ nsteps < MaxSteps
        /\ builder' = SerializeVec_serialize_element(builder, v).st
        /\ before' = builder
        /\ nsteps' = nsteps + 1
        /\ log' = IF SerializeVec_serialize_element(builder, v).res.ok
                  THEN Append(log, v) ELSE log
        /\ call' = [name |-> "serialize_element", arg |-> [key |-> InUnit, value |-> v],
                    ret |-> SerializeVec_serialize_element(builder, v).res]
        /\ UNCHANGED <<phase, this, prev, numVars, encVars>>

EndVec ==
    /\ phase = "open"
    /\ phase' = "ended"
    /\ before' = builder
    /\ call' = [name |-> "end", arg |-> [key |-> InUnit, value |-> InUnit],
                ret |-> SerializeVec_end(builder)]
    /\ UNCHANGED <<builder, nsteps, domVars, numVars, encVars>>

NextVec == SerializeElement \/ EndVec

SpecVec == InitVec /\ [][NextVec]_vars

(***************************************************************************)
(* SpecId: an Owned value handed to the encode engine.  Value implements   *)
(* Serialize: each variant calls the Serializer method of its shape, an    *)
(* Array its elements in order, an Object its entries in the order the map *)
(* iterates them, which is any order.                                      *)
(***************************************************************************)
Reverse(seq) == [j \in 1..Len(seq) |-> seq[Len(seq) + 1 - j]]

RECURSIVE Value_serialize(_, _)
\* impl Serialize for Value; rev: the map iterates its entries backwards
Value_serialize(v, rev) ==
    CASE v.t = "Bool" -> InBool(v.b)
      [] v.t = "Null" -> InUnit
      [] v.t = "F64" -> InF64(v.f)
      [] v.t = "I64" -> InInt("i64", v.i)
      [] v.t = "String" -> InStr(v.s)
      [] v.t = "Array" ->
            InSeq(Some(Len(v.a)), [j \in 1..Len(v.a) |-> Value_serialize(v.a[j], rev)])
      [] v.t = "Object" ->
            InMap([e \in 1..Len(v.o) |->
                     <<InStr((IF rev THEN Reverse(v.o) ELSE v.o)[e][1]),
                       Value_serialize((IF rev THEN Reverse(v.o) ELSE v.o)[e][2], rev)>>])

Leaves ==
    {Null, Bool(TRUE), Bool(FALSE), I64V(Word(1)), I64V(Neg(One)), I64V(MinOf(I64)),
     F64V("1.5"), String("a"), String("")}
SmallLeaves == {Null, Bool(TRUE), I64V(Neg(One)), String("a")}
\* the entries of the maps over Keys: no key twice
Maps(S) ==
    {m \in SeqsUpTo(Keys \X S, Cardinality(Keys)) :
        \A e1, e2 \in 1..Len(m) : m[e1][1] = m[e2][1] => e1 = e2}
Flat ==
    {Array(xs) : xs \in SeqsUpTo(SmallLeaves, MaxLen)} \cup {Object(m) : m \in Maps(SmallLeaves)}
Trees ==
    Leaves \cup Flat
        \cup {Array(<<x>>) : x \in Flat}
        \cup {Array(<<x, Object(<<<<"key", x>>>>)>>) : x \in Flat}
        \cup {Object(<<<<"key", x>>, <<"other", Array(<<x>>)>>>>) : x \in Flat}

InitId ==
    /\ this \in Trees
    /\ prev = Null
    /\ log = <<>>
    /\ call = NoCall
    /\ IdleNum
    /\ IdleEnc
    /\ IdleSer

EncodeValue ==
    \E rev \in BOOLEAN :
        /\ call' = [name |-> "to_value", arg |-> rev, ret |-> to_value(Value_serialize(this, rev))]
        /\ UNCHANGED <<numVars, domVars, encVars, serVars>>

NextId == EncodeValue

SpecId == InitId /\ [][NextId]_vars

(***************************************************************************)
(* Properties of SpecNum.                                                  *)
(***************************************************************************)

\* what a checked narrowing of the canonical result o into T is to return:
\* Some(n) exactly when o is Some(n) and n lies in T's range
Narrowed(o, T) == IF IsSome(o) /\ InRange(Unwrap(o), T) THEN o ELSE None

\* C5: every narrower integer accessor returns Some(n) exactly when its
\* family's canonical accessor (as_i64 for the signed ones, as_u64 for the
\* unsigned ones) returns Some(n) and n fits the target width, and None
\* otherwise, never a wrapped number; as_i128 and as_u128 succeed whenever
\* as_i64 and as_u64 succeed.
C5_CheckedNarrowing ==
    /\ call.name = "as_i8" => call.ret = Narrowed(self_i64, I8)
    /\ call.name = "as_i16" => call.ret = Narrowed(self_i64, I16)
    /\ call.name = "as_i32" => call.ret = Narrowed(self_i64, I32)
    /\ call.name = "as_u8" => call.ret = Narrowed(self_u64, U8)
    /\ call.name = "as_u16" => call.ret = Narrowed(self_u64, U16)
    /\ call.name = "as_u32" => call.ret = Narrowed(self_u64, U32)
    /\ call.name = "as_usize" => call.ret = Narrowed(self_u64, Usize)
    /\ call.name = "as_i128" => (IsSome(self_i64) => IsSome(call.ret))
    /\ call.name = "as_u128" => (IsSome(self_u64) => IsSome(call.ret))

\* as_i8 called on a value whose as_i64 is Some(128) has returned None
C5_Witness ==
    /\ call.name = "as_i8"
    /\ self_i64 = Some(Add(MaxOf(I8), One))
    /\ call.ret = None

\* C6: every integer serialize method yields I64: the signed widths and the
\* unsigned 8/16/32-bit widths keep the exact number; an unsigned 64-bit v
\* is stored as v when v < 2^63 and as v - 2^64 when v >= 2^63, so that
\* u64::MAX becomes I64(-1), which differs from the number encoded.
C6_IntegersEncodeToI64 ==
    /\ call.name \in {"serialize_i8", "serialize_i16", "serialize_i32", "serialize_i64",
                      "serialize_u8", "serialize_u16", "serialize_u32"}
          => call.ret = Ok(I64V(Unwrap(call.arg)))
    /\ call.name = "serialize_u64"
          => /\ call.ret = Ok(I64V(IF Less(Unwrap(call.arg), Pow2(63))
                                   THEN Unwrap(call.arg)
                                   ELSE Sub(Unwrap(call.arg), Pow2(64))))
             /\ InRange(call.ret.val.i, I64)
             /\ Unwrap(call.arg) = MaxOf(U64)
                   => call.ret.val = I64V(Neg(One)) /\ call.ret.val.i # Unwrap(call.arg)

\* serialize_u64(u64::MAX) has returned I64(-1)
C6_Witness ==
    /\ call.name = "serialize_u64"
    /\ call.arg = Some(MaxOf(U64))
    /\ call.ret = Ok(I64V(Neg(One)))

(***************************************************************************)
(* Properties of SpecValue.                                                *)
(***************************************************************************)
Front(l) == SubSeq(l, 1, Len(l) - 1)
Last(l) == l[Len(l)]

\* C1: insert and remove on a value that is not an Object return
\* NotAnObject, push and pop on a value that is not an Array return
\* NotAnArray, and the value is then exactly what it was before the call.
C1_WrongVariantIsAnError ==
    /\ (call.name \in {"insert", "remove"} /\ prev.t # "Object")
          => call.ret = ErrAccess("NotAnObject") /\ this = prev
    /\ (call.name \in {"push", "pop"} /\ prev.t # "Array")
          => call.ret = ErrAccess("NotAnArray") /\ this = prev

\* insert has been called on a String and has returned NotAnObject
C1_Witness ==
    /\ call.name = "insert"
    /\ prev.t = "String"
    /\ call.ret.err = "NotAnObject"

RECURSIVE Latest(_, _)
\* the value of the most recent insert of k in the history l that no remove
\* of k followed
Latest(l, k) ==
    IF l = <<>> THEN None
    ELSE IF Last(l).name = "insert" /\ Last(l).arg.k = k THEN Some(Last(l).arg.x)
    ELSE IF Last(l).name = "remove" /\ Last(l).arg.k = k THEN None
    ELSE Latest(Front(l), k)

NoDuplicateKeys(m) == \A j1, j2 \in 1..Len(m) : m[j1][1] = m[j2][1] => j1 = j2

\* C2: on an Object, after any inserts and removes, no key is stored twice,
\* get(k) is the value of the latest insert of k not followed by a remove of
\* k (None when there is none), insert returns the value stored before under
\* the key and remove the value it removed (None when absent).
C2_ObjectIsLastWriteWins ==
    this.t = "Object" =>
        /\ NoDuplicateKeys(this.o)
        /\ \A k \in Keys : get(this, k) = Latest(log, k)
        /\ call.name \in {"insert", "remove"}
              => call.ret = OkAccess(Latest(Front(log), call.arg.k))

\* an insert has replaced, and returned, a different value stored under its key
C2_Witness ==
    /\ this.t = "Object"
    /\ call.name = "insert"
    /\ IsSome(call.ret.val)
    /\ Unwrap(call.ret.val) # call.arg.x
    /\ get(this, call.arg.k) = Some(call.arg.x)

RECURSIVE StackOf(_)
\* the stack a history of pushes and pops leaves, bottom first
StackOf(l) ==
    IF l = <<>> THEN <<>>
    ELSE IF Last(l).name = "push" THEN Append(StackOf(Front(l)), Last(l).arg.x)
    ELSE IF Last(l).name = "pop" /\ StackOf(Front(l)) # <<>> THEN Front(StackOf(Front(l)))
    ELSE StackOf(Front(l))

\* C3: an Array behaves as a stack with significant order: pop returns the
\* latest pushed element not yet popped, get_idx(i) the i-th element pushed
\* among those still present, and pop on an empty Array returns Ok(None)
\* and leaves it empty.
C3_ArrayIsAStack ==
    this.t = "Array" =>
        /\ \A i \in 0..MaxOps :
              get_idx(this, i) = IF i < Len(StackOf(log)) THEN Some(StackOf(log)[i + 1]) ELSE None
        /\ (call.name = "pop" /\ StackOf(Front(log)) # <<>>)
              => call.ret = OkAccess(Some(Last(StackOf(Front(log)))))
        /\ (call.name = "pop" /\ StackOf(Front(log)) = <<>>)
              => call.ret = OkAccess(None) /\ this.a = <<>>

\* pop has returned the later of two different elements
C3_Witness ==
    /\ call.name = "pop"
    /\ Len(prev.a) = 2
    /\ prev.a[1] # prev.a[2]
    /\ call.ret = OkAccess(Some(prev.a[2]))
    /\ this.a = <<prev.a[1]>>

\* C4: the four lookups return an Option, never an error: get and get_mut
\* None when the value is no Object or the key is absent, get_idx and
\* get_idx_mut None when the value is no Array or the index is out of range,
\* and otherwise the entry; none of them changes the value.
C4_LookupsAreTotalAndPure ==
    /\ call.name \in {"get", "get_mut"} =>
          /\ this = prev
          /\ IF prev.t = "Object" /\ HasKey(prev.o, call.arg.k)
             THEN IsSome(call.ret) /\ \E j \in 1..Len(prev.o) : prev.o[j] = <<call.arg.k, Unwrap(call.ret)>>
             ELSE call.ret = None
    /\ call.name \in {"get_idx", "get_idx_mut"} =>
          /\ this = prev
          /\ IF prev.t = "Array" /\ call.arg.i < Len(prev.a)
             THEN call.ret = Some(prev.a[call.arg.i + 1])
             ELSE call.ret = None

\* get_mut has been called for a key absent from a non-empty Object
C4_Witness ==
    /\ call.name = "get_mut"
    /\ prev.t = "Object"
    /\ prev.o # <<>>
    /\ ~HasKey(prev.o, call.arg.k)
    /\ call.ret = None

(***************************************************************************)
(* Properties of SpecSer.                                                  *)
(***************************************************************************)
OtherKeyShapes ==
    {"bool", "f32", "f64", "char", "bytes", "unit", "unit_struct", "none", "some",
     "newtype_struct", "seq", "tuple", "tuple_struct", "tuple_variant", "map",
     "struct", "struct_variant", "newtype_variant"} \cup IntKinds

\* C7 as stated: a key is accepted only if it is a plain string or a bare
\* named alternative; a key of every other shape, the newtype wrapper among
\* them, makes the key step fail with KeyMustBeAString.
C7_AsStated ==
    call.name = "serialize_key" =>
        /\ call.arg.key.kind \in {"str", "unit_variant"}
              => call.ret = OkUnit /\ builder.next_key = Some(call.arg.key.s)
        /\ call.arg.key.kind \in OtherKeyShapes
              => call.ret = Err("KeyMustBeAString")

RECURSIVE Unwrapped(_)
\* the shape inside any newtype wrappers
Unwrapped(x) == IF x.kind = "newtype_struct" THEN Unwrapped(x.xs[1]) ELSE x

\* C7, amended: a key is accepted only if, inside any newtype wrappers, it
\* is a plain string or a bare named alternative, whose string or name is
\* then the pending key; a key that inside its newtype wrappers has any
\* other shape makes the key step fail with KeyMustBeAString and leaves the
\* builder as it was.
C7_KeyMustBeAString ==
    call.name = "serialize_key" =>
        /\ Unwrapped(call.arg.key).kind \in {"str", "unit_variant"}
              => /\ call.ret = OkUnit
                 /\ builder.next_key = Some(Unwrapped(call.arg.key).s)
        /\ Unwrapped(call.arg.key).kind \in OtherKeyShapes
              => /\ call.ret = Err("KeyMustBeAString")
                 /\ builder = before

\* a newtype wrapper around a plain string has been accepted as a key
C7_Witness ==
    /\ call.name = "serialize_key"
    /\ call.arg.key = InNewtypeStruct(InStr("a"))
    /\ call.ret = OkUnit
    /\ builder.next_key = Some("a")

\* C9: a value step taken when no key is pending panics: it returns no
\* result and inserts nothing.  Every value step that returns, with Ok or
\* with an error, has consumed the pending key, so a second value step
\* after a single key step panics as one taken before any key step does.
C9_ValueBeforeKeyPanics ==
    call.name = "serialize_value" =>
        /\ before.next_key = None => phase = "panicked" /\ builder.map = before.map
        /\ before.next_key # None => phase = "open"
        /\ builder.next_key = None

\* key step, value step, then a second value step, which has panicked
C9_Witness ==
    /\ call.name = "serialize_value"
    /\ phase = "panicked"
    /\ nsteps = 3
    /\ Len(builder.map) = 1

(***************************************************************************)
(* Properties of SpecEnc.                                                  *)
(***************************************************************************)
Encodes(x) == to_value(x).ok
Encoded(x) == to_value(x).val

\* the last value the entries kv supply for the key named s
LastFor(kv, s) ==
    kv[CHOOSE j \in 1..Len(kv) :
          /\ kv[j][1].s = s
          /\ \A j2 \in (j + 1)..Len(kv) : kv[j2][1].s # s][2]

\* C8: encoding a mapping whose keys are plain strings or bare named
\* alternatives (and whose values encode) succeeds, and the Object that
\* results holds, under each string and each alternative's name, the
\* encoding of the value supplied for that key.
C8_PlainKeysAreAccepted ==
    (/\ call.name = "to_value"
     /\ input.kind = "map"
     /\ \A j \in 1..Len(input.kv) :
           input.kv[j][1].kind \in {"str", "unit_variant"} /\ Encodes(input.kv[j][2]))
        => /\ call.ret.ok
           /\ call.ret.val.t = "Object"
           /\ NoDuplicateKeys(call.ret.val.o)
           /\ Len(call.ret.val.o) <= Len(input.kv)
           /\ \A j \in 1..Len(input.kv) :
                 get(call.ret.val, input.kv[j][1].s)
                     = Some(Encoded(LastFor(input.kv, input.kv[j][1].s)))

\* a mapping keyed by a string and by the bare alternative Foo has been
\* encoded to the Object {"a": 1, "Foo": 2}
C8_Witness ==
    /\ call.name = "to_value"
    /\ input = InMap(<<<<InStr("a"), InInt("i64", Word(1))>>,
                       <<InUnitVariant("Foo"), InInt("i64", Word(2))>>>>)
    /\ call.ret = Ok(Object(<<<<"a", I64V(Word(1))>>, <<"Foo", I64V(Word(2))>>>>))

\* C10: a bare alternative N encodes to String(N); N with one payload to
\* an Object with the single key N holding the encoded payload; N with
\* positional payloads to an Object with the single key N holding the Array
\* of the encoded payloads in order; N with labeled fields to an Object with
\* the single key N holding the Object of its encoded fields.
C10_VariantShapes ==
    call.name = "to_value" =>
        /\ input.kind = "unit_variant" => call.ret = Ok(String(input.s))
        /\ (input.kind = "newtype_variant" /\ Encodes(input.xs[1]))
              => call.ret = Ok(Object(<<<<input.s, Encoded(input.xs[1])>>>>))
        /\ (input.kind = "tuple_variant" /\ \A j \in 1..Len(input.xs) : Encodes(input.xs[j]))
              => call.ret = Ok(Object(<<<<input.s,
                                  Array([j \in 1..Len(input.xs) |-> Encoded(input.xs[j])])>>>>))
        /\ (input.kind = "struct_variant" /\ \A j \in 1..Len(input.fs) : Encodes(input.fs[j][2]))
              => /\ call.ret.ok
                 /\ call.ret.val.t = "Object"
                 /\ Len(call.ret.val.o) = 1
                 /\ call.ret.val.o[1][1] = input.s
                 /\ call.ret.val.o[1][2].t = "Object"
                 /\ NoDuplicateKeys(call.ret.val.o[1][2].o)
                 /\ \A e \in 1..Len(call.ret.val.o[1][2].o) :
                       \E j \in 1..Len(input.fs) : input.fs[j][1] = call.ret.val.o[1][2].o[e][1]
                 /\ \A j \in 1..Len(input.fs) :
                       \E e \in 1..Len(call.ret.val.o[1][2].o) :
                          /\ call.ret.val.o[1][2].o[e][1] = input.fs[j][1]
                          /\ \E j2 \in j..Len(input.fs) :
                                /\ input.fs[j2][1] = input.fs[j][1]
                                /\ \A j3 \in (j2 + 1)..Len(input.fs) : input.fs[j3][1] # input.fs[j][1]
                                /\ call.ret.val.o[1][2].o[e][2] = Encoded(input.fs[j2][2])

\* Foo { x: 1, y: 2 } has been encoded to {"Foo": {"x": 1, "y": 2}}
C10_Witness ==
    /\ call.name = "to_value"
    /\ input = InStructVariant("Foo", <<<<"x", InInt("i64", Word(1))>>, <<"y", InInt("i64", Word(2))>>>>)
    /\ call.ret = Ok(Object(<<<<"Foo", Object(<<<<"x", I64V(Word(1))>>, <<"y", I64V(Word(2))>>>>)>>>>))


ContainerKinds ==
    {"seq", "tuple", "tuple_struct", "tuple_variant", "map", "struct", "struct_variant"}

\* the error of each child step of a container, in the order the steps
\* are taken ("" for a step that succeeds): the elements, the fields, or
\* for a map the key and then the value of each entry
ChildErrs(x) ==
    CASE x.kind \in {"seq", "tuple", "tuple_struct", "tuple_variant"} ->
            [j \in 1..Len(x.xs) |-> to_value(x.xs[j]).err]
      [] x.kind = "map" ->
            [j \in 1..(2 * Len(x.kv)) |->
                IF j % 2 = 1 THEN KeySerialize(x.kv[(j + 1) \div 2][1]).err
                ELSE to_value(x.kv[j \div 2][2]).err]
      [] x.kind \in {"struct", "struct_variant"} ->
            [j \in 1..Len(x.fs) |-> to_value(x.fs[j][2]).err]

FirstFailure(errs) ==
    CHOOSE j \in 1..Len(errs) : errs[j] # "" /\ \A j2 \in 1..(j - 1) : errs[j2] = ""

\* the container cut right after its j-th child step: the later siblings
\* are gone, and so is the value of an entry whose key is the j-th step
CutAfter(x, j) ==
    CASE x.kind \in {"seq", "tuple", "tuple_struct", "tuple_variant"} ->
            [x EXCEPT !.xs = SubSeq(@, 1, j)]
      [] x.kind = "map" ->
            [x EXCEPT !.kv = [e \in 1..((j + 1) \div 2) |->
                                 IF 2 * e - 1 = j THEN <<x.kv[e][1], InUnit>> ELSE x.kv[e]]]
      [] x.kind \in {"struct", "struct_variant"} ->
            [x EXCEPT !.fs = SubSeq(@, 1, j)]

\* C11: when encoding an element, field, key or value of a container
\* fails, the encode call for the container returns the error of the first
\* step that failed and no Array or Object; the siblings after that step
\* have no part in the result, which is the one the container cut after
\* that step gives.
C11_FirstErrorShortCircuits ==
    (/\ call.name = "to_value"
     /\ input.kind \in ContainerKinds
     /\ \E j \in 1..Len(ChildErrs(input)) : ChildErrs(input)[j] # "")
        => /\ call.ret = Err(ChildErrs(input)[FirstFailure(ChildErrs(input))])
           /\ call.ret.val = Null
           /\ to_value(CutAfter(input, FirstFailure(ChildErrs(input)))) = call.ret

\* a map whose first entry has a failing value and whose second entry has
\* a key that is no string has returned the first of the two errors
C11_Witness ==
    /\ call.name = "to_value"
    /\ input = InMap(<<<<InStr("a"), InFail>>, <<InInt("i64", Word(5)), InInt("i64", Word(1))>>>>)
    /\ call.ret = Err("Custom")


(***************************************************************************)
(* Properties of SpecObj.                                                  *)
(***************************************************************************)
\* the entries a document supplies: the unescaped key and the number
SuppliedByDoc(doc, repr) ==
    [j \in 1..((Len(doc.toks) - 1) \div 4) |->
        <<Unescape(doc.toks[4 * j - 2].raw),
          from_number(repr, NumberOf(doc, 4 * j).val)>>]

\* the entries a mapping supplies: the key's string and the encoded value
SuppliedByMapping(x) ==
    [j \in 1..Len(x.kv) |-> <<Unwrapped(x.kv[j][1]).s, Encoded(x.kv[j][2])>>]

LastSupplied(supplied, k) ==
    supplied[CHOOSE j \in 1..Len(supplied) :
                /\ supplied[j][1] = k
                /\ \A j2 \in (j + 1)..Len(supplied) : supplied[j2][1] # k][2]

\* one entry for each key supplied, holding the last value supplied for it
OneEntryPerKey(supplied, o) ==
    /\ NoDuplicateKeys(o)
    /\ \A e \in 1..Len(o) : \E j \in 1..Len(supplied) : supplied[j][1] = o[e][1]
    /\ \A j \in 1..Len(supplied) :
          HashMapGet(o, supplied[j][1]) = Some(LastSupplied(supplied, supplied[j][1]))

\* C12: whenever the same key is supplied more than once while an Object
\* is built, by the decode engine or by the mapping builder of the encode
\* engine, the Object has a single entry for that key and its value is the
\* last one supplied.
C12_DuplicateKeysLastWins ==
    /\ call.name = "to_owned_value"
          => call.ret.ok /\ call.ret.val.t = "Object"
                /\ OneEntryPerKey(SuppliedByDoc(input, "owned"), call.ret.val.o)
    /\ call.name = "to_borrowed_value"
          => call.ret.ok /\ call.ret.val.t = "Object"
                /\ OneEntryPerKey(SuppliedByDoc(input, "borrowed"), call.ret.val.o)
    /\ (/\ call.name = "to_value"
        /\ \A j \in 1..Len(input.kv) :
              /\ Unwrapped(input.kv[j][1]).kind \in {"str", "unit_variant"}
              /\ Encodes(input.kv[j][2]))
          => call.ret.ok /\ call.ret.val.t = "Object"
                /\ OneEntryPerKey(SuppliedByMapping(input), call.ret.val.o)

\* {"a":1,"a":2} has been decoded to the one-entry Object {"a": 2}
C12_Witness ==
    /\ call.name = "to_owned_value"
    /\ input = ObjectDoc(<<<<"a", "1">>, <<"a", "2">>>>)
    /\ call.ret = DOk(Object(<<<<"a", I64V(Word(2))>>>>))


(***************************************************************************)
(* Properties of SpecDec.                                                  *)
(***************************************************************************)
RECURSIVE ValueEq(_, _)
\* equality of a Borrowed tree b and an Owned tree o: the same variant, the
\* same content, the same elements in order, the same keys with equal values
ValueEq(b, o) ==
    /\ b.t = o.t /\ b.b = o.b /\ b.i = o.i /\ b.f = o.f /\ b.s = o.s
    /\ Len(b.a) = Len(o.a)
    /\ \A j \in 1..Len(b.a) : ValueEq(b.a[j], o.a[j])
    /\ Len(b.o) = Len(o.o)
    /\ \A e \in 1..Len(b.o) :
          \E e2 \in 1..Len(o.o) : b.o[e][1] = o.o[e2][1] /\ ValueEq(b.o[e][2], o.o[e2][2])

SameOutcome(o, b) == o.ok = b.ok /\ (o.ok => ValueEq(b.val, o.val))

ValueStart == {"\"", "-", "n", "t", "f", "[", "{"} \cup Digits

\* a token that is a whole value and decodes without error
IsScalar(tok) ==
    \/ tok.byte = "\"" /\ tok.raw \notin BadEscapes
    \/ tok.byte \in {"n", "t", "f"}
    \/ tok.raw \in {"1", "2", "-1", "1.5"}

\* token j is where an element of the array opened by token 1 is expected:
\* scalars and commas come before it
ElementPosition(doc, j) ==
    /\ doc.lie = None
    /\ ByteAt(doc, 1) = "["
    /\ j % 2 = 0
    /\ ByteAt(doc, 2) \notin {"]", "}", NUL}
    /\ \A i \in 2..(j - 1) :
          IF i % 2 = 0 THEN IsScalar(doc.toks[i]) ELSE doc.toks[i].byte = ","

\* token j is where a value of the object opened by token 1 is expected:
\* "key" : scalar , come before it
MemberPosition(doc, j) ==
    /\ doc.lie = None
    /\ ByteAt(doc, 1) = "{"
    /\ j % 4 = 0
    /\ \A i \in 2..(j - 1) :
          CASE i % 4 = 2 -> doc.toks[i].byte = "\"" /\ doc.toks[i].raw \notin BadEscapes
            [] i % 4 = 3 -> doc.toks[i].byte = ":"
            [] i % 4 = 0 -> IsScalar(doc.toks[i])
            [] i % 4 = 1 -> doc.toks[i].byte = ","

\* C14: a byte outside the quote character, '-', the digits, 'n', 't',
\* 'f', '[' and '{' where a value is expected (at the root, as an element
\* of an array, as a value of an object) yields UnexpectedCharacter with
\* the offset of that byte; an UnexpectedCharacter error always points at
\* such a byte; and a decode that fails returns the error and no value.
C14_UnexpectedCharacter ==
    call.name \in {"to_owned_value", "to_borrowed_value"} =>
        /\ ByteAt(input, 1) \notin ValueStart
              => call.ret = DErr("UnexpectedCharacter", 0)
        /\ \A j \in 2..(Len(input.toks) + 1) :
              ((ElementPosition(input, j) \/ MemberPosition(input, j))
                  /\ ByteAt(input, j) \notin ValueStart)
                 => call.ret = DErr("UnexpectedCharacter", Offset(input.toks, j))
        /\ call.ret.err = "UnexpectedCharacter"
              => \E j \in 1..(Len(input.toks) + 1) :
                    /\ call.ret.at = Offset(input.toks, j)
                    /\ ByteAt(input, j) \notin ValueStart
        /\ ~call.ret.ok => call.ret.val = Null

\* ["a",+] has failed with UnexpectedCharacter at offset 5, the '+'
C14_Witness ==
    /\ call.name = "to_owned_value"
    /\ input = Doc(<<Punct("["), Str("a"), Punct(","), Punct("+"), Punct("]")>>)
    /\ call.ret = DErr("UnexpectedCharacter", 5)


EmptyArray == <<Punct("["), Punct("]")>>
EmptyObject == <<Punct("{"), Punct("}")>>
ReprOf(name) == IF name = "to_owned_value" THEN "owned" ELSE "borrowed"

C16_ArrayOfTheElements ==
    /\ builder.vec = [j \in 1..Len(log) |-> Encoded(log[j])]
    /\ (call.name = "serialize_element" /\ ~call.ret.ok) => builder = before
    /\ (call.name = "serialize_element" /\ call.ret.ok)
          => builder.vec = Append(before.vec, Encoded(call.arg.value))
    /\ call.name = "end"
          => call.ret = Ok(Array([j \in 1..Len(log) |-> Encoded(log[j])]))

\* a sequence opened with the hint 5 has been ended after the elements 1,
\* a failing one and 2: the Array is [1, 2]
C16_Witness ==
    /\ input = Opened("serialize_seq", Some(5))
    /\ call.name = "end"
    /\ nsteps = 3
    /\ log = <<InInt("i64", Word(1)), InInt("i64", Word(2))>>
    /\ call.ret = Ok(Array(<<I64V(Word(1)), I64V(Word(2))>>))


(***************************************************************************)
(* Properties of SpecId.                                                   *)
(***************************************************************************)
\* C17: encoding an Owned value through the encode engine is the identity:
\* to_value returns, without error, a tree equal to the input: the same
\* variants, the same array order, the same keys with the same values,
\* in whatever order the input's maps iterate.
C17_EncodeIsIdentity ==
    call.name = "to_value" =>
        /\ call.ret.ok
        /\ ValueEq(call.ret.val, this)
        /\ ~call.arg => call.ret = Ok(this)

\* [{"key": null, "other": "a"}] has been encoded, its map iterated
\* backwards, to an equal tree
C17_Witness ==
    /\ call.name = "to_value"
    /\ call.arg
    /\ this = Array(<<Object(<<<<"key", Null>>, <<"other", String("a")>>>>)>>)
    /\ call.ret = Ok(Array(<<Object(<<<<"other", String("a")>>, <<"key", Null>>>>)>>))


(***************************************************************************)
(* Properties of SpecSer: the pending key.                                 *)
(***************************************************************************)
\* what the claim says of failing steps, of a second key step and of end:
\* a failing key step changes nothing; a failing value step changes no
\* entry and consumes the pending key; a key step that succeeds while a
\* key is pending replaces it; end returns the Object of the entries so
\* far, without error, a pending key adding none
PendingKeySteps ==
    /\ (call.name = "serialize_key" /\ ~call.ret.ok) => builder = before
    /\ (call.name = "serialize_value" /\ phase # "panicked" /\ ~call.ret.ok)
          => builder.map = before.map /\ builder.next_key = None
    /\ (call.name = "serialize_key" /\ call.ret.ok)
          => /\ builder.next_key = Some(Unwrapped(call.arg.key).s)
             /\ builder.map = before.map
    /\ call.name = "end" => call.ret = Ok(Object(before.map)) /\ builder = before

\* C18 as stated: after key and value steps that do not panic, a key is
\* pending exactly when the most recent step was a successful key step;
\* and the rest of the claim, PendingKeySteps.
C18_AsStated ==
    /\ (call.name \in {"serialize_key", "serialize_value"} /\ phase # "panicked")
          => (builder.next_key # None <=> (call.name = "serialize_key" /\ call.ret.ok))
    /\ PendingKeySteps

\* C18, amended: after steps that do not panic, a key is pending exactly
\* when the most recent step other than a failing key step was a
\* successful key step: a successful key step leaves a key pending, a
\* value step or a field step leaves none, and a failing key step leaves
\* a key pending exactly if one was pending before it; and the rest of the
\* claim, PendingKeySteps.
C18_PendingKey ==
    /\ phase # "panicked"
          => (builder.next_key # None <=>
                CASE call.name = "serialize_key" -> call.ret.ok \/ before.next_key # None
                  [] call.name = "end" -> before.next_key # None
                  [] OTHER -> FALSE)
    /\ PendingKeySteps

\* the key "a" is still pending after a later key step failed
C18_Witness ==
    /\ call.name = "serialize_key"
    /\ call.ret = Err("KeyMustBeAString")
    /\ nsteps = 2
    /\ before.next_key = Some("a")
    /\ builder.next_key = Some("a")

====
